---- MODULE Spec2Model ----
(***************************************************************************)
(* A model of the PB Creative invoice manager (pamod99/PB-Invoices):       *)
(*   - the financial calculator of the views        (specification SpecCalc) *)
(*   - the paginator of InvoicePreview              (specification SpecPages)*)
(*   - the chunked persistence of one invoice       (specification SpecChunk)*)
(*   - the write batch of an invoice save           (specification SpecBatch)*)
(*   - the multi-file uploads of the editor         (specification SpecUpload)*)
(*   - the application and its two stores           (specification Spec)     *)
(* Each part has its own variables; a specification of one part leaves the *)
(* variables of the other parts at their idle values.                      *)
(***************************************************************************)
EXTENDS Integers, Sequences, FiniteSets, TLC

VARIABLES
    \* ---- financial calculator ----
    cInv,              \* the invoice handed to the views
    cShown,            \* view -> the total that view displays, or NotShown
    \* ---- paginator (InvoicePreview, pages useMemo) ----
    pItems,            \* data.items
    pIdx,              \* index of the next item forEach visits
    chunkedPages,      \* chunkedPages
    currentPageItems,  \* currentPageItems
    currentHeight,     \* currentHeight
    pDone,             \* TRUE once the useMemo callback has returned
    \* ---- chunked persistence of one invoice ----
    kInv,              \* the invoice being saved (activeInvoice)
    kMain,             \* the record at invoices/{id}, or NoDoc
    kImages,           \* the records under invoices/{id}/invoiceImages
    kFull,             \* what fetchInvoiceImages returned, or NoDoc
    \* ---- the write batch of one invoice save, by record counts ----
    bCounts,           \* item.images.length for every item of activeInvoice
    bBatches,          \* the number of batch.set calls of every batch built
    bOutcome,          \* "none", or how the save ended: "saved" or "failed"
    \* ---- the editor's multi-file uploads (InvoiceEditor) ----
    uItems,            \* data.items of the editor
    uUpload,           \* the upload in progress: its kind, target and files, or NoDoc
    uTasks,            \* processImageFile(file) per file: "pending", "resolved", "rejected"
    isProcessingImages,\* useState: isProcessingImages
    uLast,             \* history: the last upload that ended, and how
    uCount,            \* the number of uploads started so far
    \* ---- the application and its two stores ----
    isConfigured,      \* firebaseConfig: isConfigured
    boot,              \* where fetchData stands
    fetched,           \* fetchData's locals: fetchedInvoices, fetchedClients, ...
    loading,           \* useState: loading
    isOffline,         \* useState: isOffline
    invoices,          \* useState: invoices
    clients,           \* useState: clients
    projects,          \* useState: projects
    appSettings,       \* useState: appSettings
    activeInvoice,     \* useState: activeInvoice, NoDoc for null
    localStorage,      \* the entries pb_invoices, pb_clients, pb_projects, pb_settings
    remote,            \* the remote store's collections
    pending,           \* remote requests awaited by a handler
    reader,            \* the FileReader of handleImportData, with onload's closure
    exported,          \* the last downloaded backup, while state is as exported
    last,              \* the last step: handler, outcome, alert shown
    mutated,           \* history: a mutating operation has run in this session
    editRequested,     \* history: the invoice of the latest image fetch of handleEditInvoice
    nOps               \* the number of user actions so far

calcVars == <<cInv, cShown>>
pagVars == <<pItems, pIdx, chunkedPages, currentPageItems, currentHeight, pDone>>
batchVars == <<bCounts, bBatches, bOutcome>>
uploadVars == <<uItems, uUpload, uTasks, isProcessingImages, uLast, uCount>>
chunkVars == <<kInv, kMain, kImages, kFull, batchVars>>
memVars == <<invoices, clients, projects, appSettings>>
storeVars ==
    <<isConfigured, boot, fetched, loading, isOffline, memVars, activeInvoice,
      localStorage, remote, pending, reader, exported, last, mutated, editRequested,
      nOps>>
vars == <<calcVars, pagVars, chunkVars, storeVars, uploadVars>>

\* Sequences over S of length at most n.
SeqUpTo(S, n) == UNION {[1..k -> S] : k \in 0..n}

(***************************************************************************)
(* JavaScript numbers. A field of an invoice that came from an imported    *)
(* document or from the remote store may be missing (undefined).           *)
(* Arithmetic is exact: amounts of money are counted in hundredths, so     *)
(* that taxRate / 100 needs no fractions; the rounding of IEEE doubles is  *)
(* not modelled.                                                           *)
(***************************************************************************)
Num(n) == [t |-> "number", v |-> n]
NaN == [t |-> "NaN", v |-> 0]
Undefined == [t |-> "undefined", v |-> 0]

\* a * b : NaN unless both operands are numbers (undefined converts to NaN)
JsMul(a, b) == IF a.t = "number" /\ b.t = "number" THEN Num(a.v * b.v) ELSE NaN
\* a + b
JsAdd(a, b) == IF a.t = "number" /\ b.t = "number" THEN Num(a.v + b.v) ELSE NaN
\* a - b
JsSub(a, b) == IF a.t = "number" /\ b.t = "number" THEN Num(a.v - b.v) ELSE NaN
\* (a || 0) : 0 for every falsy a (undefined, NaN, 0)
JsOrZero(a) == IF a.t = "number" /\ a.v # 0 THEN a ELSE Num(0)

\* items.reduce((acc, item) => acc + (item.price * item.quantity), 0)
RECURSIVE SubtotalFrom(_, _, _)
SubtotalFrom(items, k, acc) ==
    IF k > Len(items) THEN acc
    ELSE SubtotalFrom(items, k + 1, JsAdd(acc, JsMul(items[k].price, items[k].quantity)))

Subtotal(inv) == SubtotalFrom(inv.items, 1, Num(0))

\* subtotal * (taxRate / 100), in hundredths
TaxAmount(inv) == JsMul(Subtotal(inv), inv.taxRate)

\* subtotal + taxAmount - (discount || 0), in hundredths
TotalOf(inv) ==
    JsSub(JsAdd(JsMul(Num(100), Subtotal(inv)), TaxAmount(inv)),
          JsMul(Num(100), JsOrZero(inv.discount)))

\* The same three lines appear in each view that shows money.
previewTotal(inv) == TotalOf(inv)
calculateTotal(inv) == TotalOf(inv)
calculateInvoiceTotal(inv) == TotalOf(inv)
editorTotal(inv) == TotalOf(inv)

Views == {"preview", "list", "dashboard", "editor"}
NotShown == [t |-> "none", v |-> 0]

MaxCalcItems == 2
Prices == {Undefined, Num(50), Num(100)}
Quantities == {Undefined, Num(1), Num(2)}
TaxRates == {Undefined, Num(0), Num(10)}
Discounts == {Undefined, Num(0), Num(20)}
CalcItems == [price : Prices, quantity : Quantities]
CalcInvoices ==
    [items : SeqUpTo(CalcItems, MaxCalcItems), taxRate : TaxRates, discount : Discounts]

(***************************************************************************)
(* Invoices as the persistence code sees them. An id is a sequence of      *)
(* tokens, so that the key of a child record, `${item.id}_${idx}`, is a    *)
(* longer sequence that split('_') cuts again. A field that is absent      *)
(* reads as Undefined.                                                     *)
(***************************************************************************)
NoDoc == [absent |-> TRUE]

ItemIds == {<<"a">>, <<"b">>}
Payloads == {"x", "y"}
MaxItems == 2
MaxImages == 2
PageCounts == {Undefined, Num(0), Num(2)}
Statuses == {"DRAFT", "PAID"}

Items == [id : ItemIds, images : SeqUpTo(Payloads, MaxImages), pages : PageCounts]
ItemSeqs ==
    {s \in SeqUpTo(Items, MaxItems) :
        \A j, k \in 1..Len(s) : j # k => s[j].id # s[k].id}

\* String(idx)
IndexToken(idx) == <<"0", "1", "2", "3", "4", "5", "6", "7", "8", "9">>[idx + 1]

\* `${item.id}_${idx}`
DocId(itemId, idx) == itemId \o <<"_", IndexToken(idx)>>

\* const [itemId] = doc.id.split('_')
RECURSIVE FirstSegment(_)
FirstSegment(docId) ==
    IF docId = <<>> \/ Head(docId) = "_" THEN <<>>
    ELSE <<Head(docId)>> \o FirstSegment(Tail(docId))

\* const cleanItem = { ...item }; if (!cleanItem.pages) delete cleanItem.pages;
\* cleanItem.images = []
cleanItemKeepingImages(item) ==
    [item EXCEPT !.pages = IF JsOrZero(@) = Num(0) THEN Undefined ELSE @]
cleanItem(item) ==
    [item EXCEPT !.pages = IF JsOrZero(@) = Num(0) THEN Undefined ELSE @,
                 !.images = <<>>]

\* { ...activeInvoice, items: activeInvoice.items.map(...) }
lightweightInvoice(inv) ==
    [inv EXCEPT !.items = [k \in DOMAIN inv.items |-> cleanItem(inv.items[k])]]

\* item.images.forEach((imgData, idx) => imageWrites.push({ id, data }))
itemImageWritesFromOne(item) ==
    [i \in 1..Len(item.images) |-> [id |-> DocId(item.id, i), data |-> item.images[i]]]
itemImageWrites(item) ==
    [i \in 1..Len(item.images) |-> [id |-> DocId(item.id, i - 1), data |-> item.images[i]]]

\* activeInvoice.items.forEach(item => item.images.forEach(...))
RECURSIVE imageWritesFrom(_, _)
imageWritesFrom(items, k) ==
    IF k > Len(items) THEN <<>>
    ELSE itemImageWrites(items[k]) \o imageWritesFrom(items, k + 1)

imageWrites(inv) == imageWritesFrom(inv.items, 1)

Range(s) == {s[i] : i \in DOMAIN s}

\* batch.set(imgRef, { data: img.data }) for every write: a record with the
\* same key is replaced, every other record of the subcollection stays.
SetImageDocs(docs, writes) ==
    {d \in docs : \A w \in Range(writes) : w.id # d.id} \cup Range(writes)

\* The orders in which a query may hand back the records of a collection.
RECURSIVE Orders(_)
Orders(S) ==
    IF S = {} THEN {<<>>}
    ELSE UNION {{<<d>> \o rest : rest \in Orders(S \ {d})} : d \in S}

\* imagesSnapshot.forEach(doc => { ...; imageMap[itemId].push(data.data) })
RECURSIVE imageMapEntry(_, _)
imageMapEntry(snapshot, itemId) ==
    IF snapshot = <<>> THEN <<>>
    ELSE (IF FirstSegment(Head(snapshot).id) = itemId
          THEN <<Head(snapshot).data>> ELSE <<>>)
         \o imageMapEntry(Tail(snapshot), itemId)

\* images: imageMap[item.id] || item.images || []
fullItem(item, snapshot) ==
    [item EXCEPT !.images =
        IF imageMapEntry(snapshot, item.id) # <<>>
        THEN imageMapEntry(snapshot, item.id) ELSE @]

\* const fullInvoice = { ...invoice, items: invoice.items.map(...) }
fullInvoice(invoice, snapshot) ==
    [invoice EXCEPT !.items = [k \in DOMAIN invoice.items |-> fullItem(invoice.items[k], snapshot)]]

\* invoice.items.some(item => item.images.length > 0)
hasImages(invoice) == \E k \in DOMAIN invoice.items : Len(invoice.items[k].images) > 0

(***************************************************************************)
(* The application state and its two stores. An optional value is a        *)
(* sequence of length 0 or 1. JSON.stringify wraps a value into the text   *)
(* of a local-store entry or of a backup file and JSON.parse unwraps it;   *)
(* both are lossless on the values the handlers build, which hold neither  *)
(* NaN nor a key with the value undefined.                                 *)
(***************************************************************************)
None == <<>>
Some(v) == <<v>>

JSONstringify(v) == Some(v)
JSONparse(text) == text[1]

InvoiceIds == {"i1", "i2"}
ClientIds == {"c1", "c2"}
ProjectIds == {"p1", "p2"}
MaxClients == 1
MaxProjects == 1
MaxPending == 2
MaxOps == 3

defaultAppSettings == [businessName |-> "PB Creative"]
SettingsValues == {defaultAppSettings, [businessName |-> "Studio"]}

\* What the user can make of the line items in the editor.
EditorItemSeqs ==
    { <<>>,
      <<[id |-> <<"a">>, images |-> <<"x", "y">>, pages |-> Undefined]>>,
      <<[id |-> <<"a">>, images |-> <<"y">>, pages |-> Num(0)],
        [id |-> <<"b">>, images |-> <<>>, pages |-> Num(2)]>> }

createEmptyInvoice(id) == [id |-> id, status |-> "DRAFT", items |-> <<>>]

\* localStorage.setItem(key, JSON.stringify(value)), four times
syncToLocalStorageSwapped(newInvoices, newClients, newProjects, newSettings) ==
    [pb_invoices |-> JSONstringify(newInvoices),
     pb_clients |-> JSONstringify(newProjects),
     pb_projects |-> JSONstringify(newClients),
     pb_settings |-> JSONstringify(newSettings)]
syncToLocalStorage(newInvoices, newClients, newProjects, newSettings) ==
    [pb_invoices |-> JSONstringify(newInvoices),
     pb_clients |-> JSONstringify(newClients),
     pb_projects |-> JSONstringify(newProjects),
     pb_settings |-> JSONstringify(newSettings)]

EmptyLocalStorage ==
    [pb_invoices |-> None, pb_clients |-> None, pb_projects |-> None, pb_settings |-> None]

\* if (localX) setX(JSON.parse(localX))
loadedOr(entry, current) == IF entry # None THEN JSONparse(entry) ELSE current

EmptyRemote ==
    [invoices |-> {}, images |-> {}, clients |-> {}, projects |-> {}, settings |-> None]

\* batch.commit(): batch.set(invoiceRef, main) and batch.set(imgRef, { data })
\* for every image write take effect together; set replaces the record with
\* the same key and touches no other record.
committed(store, main, images) ==
    [store EXCEPT
        !.invoices = {d \in @ : d.id # main.id} \cup {main},
        !.images =
            {d \in @ : ~(d.inv = main.id /\ \E w \in Range(images) : w.id = d.id)}
            \cup {[inv |-> main.id, id |-> w.id, data |-> w.data] : w \in Range(images)}]

\* States that earlier sessions can have left in the two stores.
EarlierInvoice ==
    [id |-> "i1", status |-> "DRAFT",
     items |-> <<[id |-> <<"a">>, images |-> <<"x", "y">>, pages |-> Undefined]>>]
OtherInvoice == [id |-> "i2", status |-> "SENT", items |-> <<>>]
InitialRemotes ==
    { EmptyRemote,
      [committed(EmptyRemote, lightweightInvoice(EarlierInvoice),
                 imageWrites(EarlierInvoice)) EXCEPT
          !.clients = {[id |-> "c1"]}, !.settings = Some([businessName |-> "Studio"])],
      [committed(EmptyRemote, lightweightInvoice(EarlierInvoice),
                 imageWrites(EarlierInvoice)) EXCEPT
          !.invoices = @ \cup {OtherInvoice}, !.projects = {[id |-> "p1"]}] }
InitialLocalStorages ==
    { EmptyLocalStorage,
      syncToLocalStorage(<<[EarlierInvoice EXCEPT !.status = "PAID"]>>,
                         <<>>, <<>>, defaultAppSettings) }

\* The files the user may pick for import: one that does not parse, a full
\* backup, and a document with the key invoices only.
UnparsableFile == [parses |-> FALSE]
BackupFile(i, c, p, s) ==
    [parses |-> TRUE, invoices |-> i, clients |-> c, projects |-> p, settings |-> s]
ImportFiles ==
    { UnparsableFile,
      BackupFile(Some(<<[id |-> "i2", status |-> "PAID", items |-> <<>>]>>),
                 Some(<<[id |-> "c2"]>>), Some(<<>>), Some([businessName |-> "Studio"])),
      BackupFile(Some(<<>>), None, None, None) }

\* JSON.stringify({ invoices, clients, projects, settings: appSettings })
exportTextSwapped(i, c, p, s) == BackupFile(Some(i), Some(p), Some(c), Some(s))
exportText(i, c, p, s) == BackupFile(Some(i), Some(c), Some(p), Some(s))

FailKinds == {"network", "permission", "size"}
ReadFailKinds == {"network", "permission"}

NoAlert == ""
Step(op, result, alert, wasOffline) ==
    [op |-> op, result |-> result, alert |-> alert, wasOffline |-> wasOffline]

NoFetched == [invoices |-> <<>>, clients |-> <<>>, projects |-> <<>>]

StoreIdle ==
    /\ isConfigured = FALSE
    /\ boot = "done"
    /\ fetched = NoFetched
    /\ loading = FALSE
    /\ isOffline = FALSE
    /\ invoices = <<>>
    /\ clients = <<>>
    /\ projects = <<>>
    /\ appSettings = defaultAppSettings
    /\ activeInvoice = NoDoc
    /\ localStorage = EmptyLocalStorage
    /\ remote = EmptyRemote
    /\ pending = {}
    /\ reader = None
    /\ exported = None
    /\ last = Step("idle", "none", NoAlert, FALSE)
    /\ mutated = FALSE
    /\ editRequested = None
    /\ nOps = 0

\* Idle values of the parts a specification does not exercise.
CalcIdle ==
    /\ cInv = [items |-> <<>>, taxRate |-> Num(0), discount |-> Num(0)]
    /\ cShown = [w \in Views |-> NotShown]

PagIdle ==
    /\ pItems = <<>>
    /\ pIdx = 1
    /\ chunkedPages = <<>>
    /\ currentPageItems = <<>>
    /\ currentHeight = 0
    /\ pDone = TRUE

NoUpload == [kind |-> "none"]

UploadIdle ==
    /\ uItems = <<>>
    /\ uUpload = NoDoc
    /\ uTasks = <<>>
    /\ isProcessingImages = FALSE
    /\ uLast = NoUpload
    /\ uCount = 0

BatchIdle ==
    /\ bCounts = <<>>
    /\ bBatches = <<>>
    /\ bOutcome = "none"

ChunkIdle ==
    /\ kInv = NoDoc
    /\ kMain = NoDoc
    /\ kImages = {}
    /\ kFull = NoDoc
    /\ BatchIdle

InitCalc ==
    /\ cInv \in CalcInvoices
    /\ cShown = [w \in Views |-> NotShown]
    /\ PagIdle
    /\ ChunkIdle
    /\ StoreIdle
    /\ UploadIdle

Show(view, total) ==
    /\ cShown[view] = NotShown
    /\ cShown' = [cShown EXCEPT ![view] = total]
    /\ UNCHANGED <<cInv, pagVars, chunkVars, storeVars, uploadVars>>

RenderPreview == Show("preview", previewTotal(cInv))
RenderList == Show("list", calculateTotal(cInv))
RenderDashboard == Show("dashboard", calculateInvoiceTotal(cInv))
RenderEditor == Show("editor", editorTotal(cInv))

NextCalc == RenderPreview \/ RenderList \/ RenderDashboard \/ RenderEditor

SpecCalc == InitCalc /\ [][NextCalc]_vars

\* The total of the claim: missing numeric fields count as 0.
Z(a) == IF a.t = "number" THEN a.v ELSE 0
RECURSIVE SumZ(_, _)
SumZ(items, k) ==
    IF k > Len(items) THEN 0
    ELSE Z(items[k].price) * Z(items[k].quantity) + SumZ(items, k + 1)
ClaimedTotal(inv) ==
    Num(100 * SumZ(inv.items, 1) + SumZ(inv.items, 1) * Z(inv.taxRate)
        - 100 * Z(inv.discount))

\* C1: every view shows subtotal + subtotal*taxRate/100 - discount, with a
\* missing numeric field treated as 0.
C1_TotalWithZeroDefaults ==
    \A w \in Views : cShown[w] # NotShown => cShown[w] = ClaimedTotal(cInv)

(***************************************************************************)
(* Chunked persistence of one invoice: the remote half of                  *)
(* handleSaveInvoice, then fetchInvoiceImages on the record that the next  *)
(* session's bootstrap reads from the invoices collection.                 *)
(***************************************************************************)
ChunkInvoices == [id : {"i1"}, status : Statuses, items : ItemSeqs]

InitChunk ==
    /\ kInv \in ChunkInvoices
    /\ kMain = NoDoc
    /\ kImages = {}
    /\ kFull = NoDoc
    /\ BatchIdle
    /\ CalcIdle
    /\ PagIdle
    /\ StoreIdle
    /\ UploadIdle

\* batch.set(invoiceRef, lightweightInvoice); batch.set(imgRef, ...); commit
ChunkSave ==
    /\ kMain = NoDoc
    /\ kMain' = lightweightInvoice(kInv)
    /\ kImages' = SetImageDocs(kImages, imageWrites(kInv))
    /\ UNCHANGED <<kInv, kFull, batchVars, calcVars, pagVars, storeVars, uploadVars>>

\* fetchInvoiceImages(invoice), invoice being the lightweight record
ChunkFetch ==
    /\ kMain # NoDoc
    /\ kFull = NoDoc
    /\ \E snapshot \in Orders(kImages) :
          kFull' = IF hasImages(kMain) THEN kMain ELSE fullInvoice(kMain, snapshot)
    /\ UNCHANGED <<kInv, kMain, kImages, batchVars, calcVars, pagVars, storeVars, uploadVars>>

NextChunk == ChunkSave \/ ChunkFetch

SpecChunk == InitChunk /\ [][NextChunk]_vars

\* C4: the reassembled invoice has, for every line item, the images of the
\* original in the original order and the same other fields, whatever order
\* the child records come back in.
\* (A page count of 0 and an absent page count both say "not applicable".)
C4_ChunkRoundTrip ==
    kFull # NoDoc =>
        /\ kFull.id = kInv.id
        /\ kFull.status = kInv.status
        /\ Len(kFull.items) = Len(kInv.items)
        /\ \A k \in 1..Len(kInv.items) :
              /\ kFull.items[k].id = kInv.items[k].id
              /\ JsOrZero(kFull.items[k].pages) = JsOrZero(kInv.items[k].pages)
              /\ kFull.items[k].images = kInv.items[k].images

(***************************************************************************)
(* The dual-backend store: App's state, fetchData and the handlers. A      *)
(* handler runs to its first await in one step; the awaited remote request *)
(* sits in pending until the store answers, and the handler's continuation *)
(* runs in the step that takes the answer. While loading, the loading      *)
(* screen is rendered and no handler can be invoked.                       *)
(***************************************************************************)
\* !isOffline && isConfigured
ONLINEIgnoringOffline == isConfigured
ONLINE == ~isOffline /\ isConfigured

CanIssue == Cardinality(pending) < MaxPending

\* A user action: the model follows the session for MaxOps of them.
UserAction == ~loading /\ nOps < MaxOps /\ nOps' = nOps + 1

Ids(seq) == {seq[k].id : k \in DOMAIN seq}

SyncNowOnlyOffline(i, c, p, s) ==
    localStorage' = IF isOffline \/ ~isConfigured THEN syncToLocalStorage(i, c, p, s)
                    ELSE localStorage
SyncNow(i, c, p, s) == localStorage' = syncToLocalStorage(i, c, p, s)

\* Every step that changes the collections ends the validity of the backup.
Mutation == mutated' = TRUE /\ exported' = None

InitStore ==
    /\ isConfigured \in BOOLEAN
    /\ boot = "mount"
    /\ fetched = NoFetched
    /\ loading = TRUE
    /\ isOffline = FALSE
    /\ invoices = <<>>
    /\ clients = <<>>
    /\ projects = <<>>
    /\ appSettings = defaultAppSettings
    /\ activeInvoice = NoDoc
    /\ localStorage \in InitialLocalStorages
    /\ remote \in InitialRemotes
    /\ pending = {}
    /\ reader = None
    /\ exported = None
    /\ last = Step("idle", "none", NoAlert, FALSE)
    /\ mutated = FALSE
    /\ editRequested = None
    /\ nOps = 0
    /\ CalcIdle
    /\ PagIdle
    /\ ChunkIdle
    /\ UploadIdle

\* loadFromLocalStorage()
loadFromLocalStorageOrFetched ==
    /\ invoices' = loadedOr(localStorage.pb_invoices, fetched.invoices)
    /\ clients' = loadedOr(localStorage.pb_clients, fetched.clients)
    /\ projects' = loadedOr(localStorage.pb_projects, fetched.projects)
    /\ appSettings' = loadedOr(localStorage.pb_settings, appSettings)
loadFromLocalStorage ==
    /\ invoices' = loadedOr(localStorage.pb_invoices, invoices)
    /\ clients' = loadedOr(localStorage.pb_clients, clients)
    /\ projects' = loadedOr(localStorage.pb_projects, projects)
    /\ appSettings' = loadedOr(localStorage.pb_settings, appSettings)

\* fetchData up to its first await
BootStart ==
    /\ boot = "mount"
    /\ IF ~isConfigured
       THEN /\ isOffline' = TRUE
            /\ loadFromLocalStorage
            /\ loading' = FALSE
            /\ boot' = "done"
       ELSE /\ boot' = "invoices"
            /\ UNCHANGED <<isOffline, memVars, loading>>
    /\ last' = Step("fetchData", "none", NoAlert, isOffline)
    /\ UNCHANGED <<isConfigured, fetched, activeInvoice, localStorage, remote, pending,
                   reader, exported, mutated>>
    /\ UNCHANGED <<nOps, calcVars, pagVars, chunkVars, uploadVars, editRequested>>

\* getDocs(collection(db, "invoices" | "clients" | "projects")) answers
BootFetched ==
    /\ boot \in {"invoices", "clients", "projects"}
    /\ \E snapshot \in Orders(remote[boot]) :
          fetched' = [fetched EXCEPT ![boot] = snapshot]
    /\ boot' = CASE boot = "invoices" -> "clients"
                 [] boot = "clients" -> "projects"
                 [] boot = "projects" -> "settings"
    /\ last' = Step("fetchData", "ok", NoAlert, isOffline)
    /\ UNCHANGED <<isConfigured, loading, isOffline, memVars, activeInvoice, localStorage,
                   remote, pending, reader, exported, mutated>>
    /\ UNCHANGED <<nOps, calcVars, pagVars, chunkVars, uploadVars, editRequested>>

\* lines 122-127 and the finally block
BootApplyKeepingLocal(fetchedSettings) ==
    /\ invoices' = fetched.invoices
    /\ clients' = fetched.clients
    /\ projects' = fetched.projects
    /\ appSettings' = fetchedSettings
    /\ IF localStorage = EmptyLocalStorage
       THEN SyncNow(fetched.invoices, fetched.clients, fetched.projects, fetchedSettings)
       ELSE UNCHANGED localStorage
    /\ isOffline' = FALSE
    /\ loading' = FALSE
    /\ boot' = "done"
BootApply(fetchedSettings) ==
    /\ invoices' = fetched.invoices
    /\ clients' = fetched.clients
    /\ projects' = fetched.projects
    /\ appSettings' = fetchedSettings
    /\ SyncNow(fetched.invoices, fetched.clients, fetched.projects, fetchedSettings)
    /\ isOffline' = FALSE
    /\ loading' = FALSE
    /\ boot' = "done"

\* getDoc(doc(db, "settings", "general")) answers
BootSettingsFetched ==
    /\ boot = "settings"
    /\ IF remote.settings # None
       THEN BootApply(remote.settings[1])
       ELSE /\ boot' = "seed"
            /\ UNCHANGED <<memVars, localStorage, isOffline, loading>>
    /\ last' = Step("fetchData", "ok", NoAlert, isOffline)
    /\ UNCHANGED <<isConfigured, fetched, activeInvoice, remote, pending, reader, exported,
                   mutated>>
    /\ UNCHANGED <<nOps, calcVars, pagVars, chunkVars, uploadVars, editRequested>>

\* try { await setDoc(doc(db, "settings", "general"), defaultAppSettings) } catch(e) {}
BootSeededOrOffline ==
    /\ boot = "seed"
    /\ \E result \in {"ok"} \cup FailKinds :
          /\ remote' = IF result = "ok"
                       THEN [remote EXCEPT !.settings = Some(defaultAppSettings)]
                       ELSE remote
          /\ last' = Step("seedSettings", result, NoAlert, isOffline)
          /\ IF result = "ok"
             THEN BootApply(defaultAppSettings)
             ELSE /\ isOffline' = TRUE
                  /\ loadFromLocalStorage
                  /\ loading' = FALSE
                  /\ boot' = "done"
                  /\ UNCHANGED localStorage
    /\ UNCHANGED <<isConfigured, fetched, activeInvoice, pending, reader, exported, mutated>>
    /\ UNCHANGED <<nOps, calcVars, pagVars, chunkVars, uploadVars, editRequested>>
BootSeeded ==
    /\ boot = "seed"
    /\ \E result \in {"ok"} \cup FailKinds :
          /\ remote' = IF result = "ok"
                       THEN [remote EXCEPT !.settings = Some(defaultAppSettings)]
                       ELSE remote
          /\ last' = Step("seedSettings", result, NoAlert, isOffline)
    /\ BootApply(defaultAppSettings)
    /\ UNCHANGED <<isConfigured, fetched, activeInvoice, pending, reader, exported, mutated>>
    /\ UNCHANGED <<nOps, calcVars, pagVars, chunkVars, uploadVars, editRequested>>

\* one of the four fetches throws: the catch and the finally block
BootFetchFailed ==
    /\ boot \in {"invoices", "clients", "projects", "settings"}
    /\ \E kind \in ReadFailKinds : last' = Step("fetchData", kind, NoAlert, isOffline)
    /\ isOffline' = TRUE
    /\ loadFromLocalStorage
    /\ loading' = FALSE
    /\ boot' = "done"
    /\ UNCHANGED <<isConfigured, fetched, activeInvoice, localStorage, remote, pending,
                   reader, exported, mutated>>
    /\ UNCHANGED <<nOps, calcVars, pagVars, chunkVars, uploadVars, editRequested>>

\* ---- invoice handlers ----

handleCreateNewInvoice ==
    /\ UserAction
    /\ \E id \in InvoiceIds :
          /\ id \notin Ids(invoices) \cup {d.id : d \in remote.invoices}
                       \cup {d.inv : d \in remote.images}
          /\ (IF activeInvoice = NoDoc THEN TRUE ELSE activeInvoice.id # id)
          /\ activeInvoice' = createEmptyInvoice(id)
    /\ last' = Step("handleCreateNewInvoice", "none", NoAlert, isOffline)
    /\ UNCHANGED <<isConfigured, boot, fetched, loading, isOffline, memVars, localStorage,
                   remote, pending, reader, exported, mutated>>
    /\ UNCHANGED <<calcVars, pagVars, chunkVars, uploadVars, editRequested>>

\* The editor's setData calls, taken together.
EditorSetItems ==
    /\ UserAction
    /\ activeInvoice # NoDoc
    /\ \E items \in EditorItemSeqs :
          /\ items # activeInvoice.items
          /\ activeInvoice' = [activeInvoice EXCEPT !.items = items]
    /\ last' = Step("setData", "none", NoAlert, isOffline)
    /\ UNCHANGED <<isConfigured, boot, fetched, loading, isOffline, memVars, localStorage,
                   remote, pending, reader, exported, mutated>>
    /\ UNCHANGED <<calcVars, pagVars, chunkVars, uploadVars, editRequested>>

\* handleEditInvoice up to the await inside fetchInvoiceImages; without a
\* request the continuation follows at once.
handleEditInvoice ==
    /\ UserAction
    /\ \E k \in DOMAIN invoices :
          LET invoice == invoices[k] IN
          IF isOffline \/ ~isConfigured \/ hasImages(invoice)
          THEN /\ activeInvoice' = invoice
               /\ UNCHANGED <<pending, editRequested>>
          ELSE /\ CanIssue
               /\ pending' = pending \cup {[op |-> "getImages", invoice |-> invoice]}
               /\ editRequested' = Some(invoice.id)
               /\ UNCHANGED activeInvoice
    /\ last' = Step("handleEditInvoice", "none", NoAlert, isOffline)
    /\ UNCHANGED <<isConfigured, boot, fetched, loading, isOffline, memVars, localStorage,
                   remote, reader, exported, mutated>>
    /\ UNCHANGED <<calcVars, pagVars, chunkVars, uploadVars>>

\* getDocs(collection(db, "invoices", invoice.id, "invoiceImages")) answers
GetImagesOk ==
    /\ \E req \in pending :
          /\ req.op = "getImages"
          /\ \E snapshot \in Orders({d \in remote.images : d.inv = req.invoice.id}) :
                activeInvoice' = fullInvoice(req.invoice, snapshot)
          /\ pending' = pending \ {req}
    /\ last' = Step("fetchInvoiceImages", "ok", NoAlert, isOffline)
    /\ UNCHANGED <<isConfigured, boot, fetched, loading, isOffline, memVars, localStorage,
                   remote, reader, exported, mutated>>
    /\ UNCHANGED <<nOps, calcVars, pagVars, chunkVars, uploadVars, editRequested>>

\* ... or throws: catch (e) { return invoice }
GetImagesFailed ==
    /\ \E req \in pending :
          /\ req.op = "getImages"
          /\ activeInvoice' = req.invoice
          /\ pending' = pending \ {req}
    /\ \E kind \in ReadFailKinds :
          last' = Step("fetchInvoiceImages", kind, NoAlert, isOffline)
    /\ UNCHANGED <<isConfigured, boot, fetched, loading, isOffline, memVars, localStorage,
                   remote, reader, exported, mutated>>
    /\ UNCHANGED <<nOps, calcVars, pagVars, chunkVars, uploadVars, editRequested>>

\* invoices.some(...) ? invoices.map(...) : [...invoices, activeInvoice]
updatedInvoicesAppending(list, inv) == Append(list, inv)
updatedInvoices(list, inv) ==
    IF inv.id \in Ids(list)
    THEN [k \in DOMAIN list |-> IF list[k].id = inv.id THEN inv ELSE list[k]]
    ELSE Append(list, inv)

\* handleSaveInvoice up to batch.commit()
handleSaveInvoice ==
    /\ UserAction
    /\ activeInvoice # NoDoc
    /\ invoices' = updatedInvoices(invoices, activeInvoice)
    /\ SyncNow(updatedInvoices(invoices, activeInvoice), clients, projects, appSettings)
    /\ IF ONLINE
       THEN /\ CanIssue
            /\ pending' = pending \cup
                  {[op |-> "commit", main |-> lightweightInvoice(activeInvoice),
                    images |-> imageWrites(activeInvoice)]}
            /\ last' = Step("handleSaveInvoice", "none", NoAlert, isOffline)
       ELSE /\ UNCHANGED pending
            /\ last' = Step("handleSaveInvoice", "none",
                            "Invoice saved locally (Offline Mode).", isOffline)
    /\ Mutation
    /\ UNCHANGED <<isConfigured, boot, fetched, loading, isOffline, clients, projects,
                   appSettings, activeInvoice, remote, reader>>
    /\ UNCHANGED <<calcVars, pagVars, chunkVars, uploadVars, editRequested>>

\* the batch commits: the main record and every image record are set
CommitOk ==
    /\ \E req \in pending :
          /\ req.op = "commit"
          /\ remote' = committed(remote, req.main, req.images)
          /\ pending' = pending \ {req}
    /\ last' = Step("handleSaveInvoice", "ok", "Invoice saved to cloud!", isOffline)
    /\ UNCHANGED <<isConfigured, boot, fetched, loading, isOffline, memVars, activeInvoice,
                   localStorage, reader, exported, mutated>>
    /\ UNCHANGED <<nOps, calcVars, pagVars, chunkVars, uploadVars, editRequested>>

\* e.message.includes('exceeds the maximum allowed size')
isSizeError(kind) == kind = "size"

\* the batch fails: the catch block of handleSaveInvoice
CommitFailed ==
    /\ \E req \in pending : req.op = "commit" /\ pending' = pending \ {req}
    /\ \E kind \in FailKinds :
          IF isSizeError(kind)
          THEN /\ last' = Step("handleSaveInvoice", kind,
                               "One of the images is too large. Please try a smaller image.",
                               isOffline)
               /\ UNCHANGED isOffline
          ELSE /\ last' = Step("handleSaveInvoice", kind,
                               "Connection lost. Invoice saved locally.", isOffline)
               /\ isOffline' = TRUE
    /\ UNCHANGED <<isConfigured, boot, fetched, loading, memVars, activeInvoice,
                   localStorage, remote, reader, exported, mutated>>
    /\ UNCHANGED <<nOps, calcVars, pagVars, chunkVars, uploadVars, editRequested>>

\* handleDeleteInvoice, the user having confirmed, up to deleteDoc
handleDeleteInvoice ==
    /\ UserAction
    /\ \E id \in Ids(invoices) :
          /\ invoices' = SelectSeq(invoices, LAMBDA inv : inv.id # id)
          /\ SyncNow(SelectSeq(invoices, LAMBDA inv : inv.id # id), clients, projects,
                     appSettings)
          /\ IF ONLINE
             THEN CanIssue /\ pending' = pending \cup {[op |-> "deleteDoc", id |-> id]}
             ELSE UNCHANGED pending
    /\ last' = Step("handleDeleteInvoice", "none", NoAlert, isOffline)
    /\ Mutation
    /\ UNCHANGED <<isConfigured, boot, fetched, loading, isOffline, clients, projects,
                   appSettings, activeInvoice, remote, reader>>
    /\ UNCHANGED <<calcVars, pagVars, chunkVars, uploadVars, editRequested>>

\* deleteDoc(doc(db, "invoices", id)) answers: the main record is gone
DeleteOk ==
    /\ \E req \in pending :
          /\ req.op = "deleteDoc"
          /\ remote' = [remote EXCEPT !.invoices = {d \in @ : d.id # req.id}]
          /\ pending' = pending \ {req}
    /\ last' = Step("handleDeleteInvoice", "ok", NoAlert, isOffline)
    /\ UNCHANGED <<isConfigured, boot, fetched, loading, isOffline, memVars, activeInvoice,
                   localStorage, reader, exported, mutated>>
    /\ UNCHANGED <<nOps, calcVars, pagVars, chunkVars, uploadVars, editRequested>>

\* ... or throws: catch (e) { setIsOffline(true) }
DeleteFailed ==
    /\ \E req \in pending : req.op = "deleteDoc" /\ pending' = pending \ {req}
    /\ \E kind \in ReadFailKinds :
          last' = Step("handleDeleteInvoice", kind, NoAlert, isOffline)
    /\ isOffline' = TRUE
    /\ UNCHANGED <<isConfigured, boot, fetched, loading, memVars, activeInvoice,
                   localStorage, remote, reader, exported, mutated>>
    /\ UNCHANGED <<nOps, calcVars, pagVars, chunkVars, uploadVars, editRequested>>

\* ---- settings, clients, projects ----

handleSaveSettings ==
    /\ UserAction
    /\ \E newSettings \in SettingsValues :
          /\ appSettings' = newSettings
          /\ SyncNow(invoices, clients, projects, newSettings)
          /\ IF ONLINE
             THEN /\ CanIssue
                  /\ pending' = pending \cup
                        {[op |-> "setDoc", path |-> "settings", data |-> newSettings]}
                  /\ last' = Step("handleSaveSettings", "none", NoAlert, isOffline)
             ELSE /\ UNCHANGED pending
                  /\ last' = Step("handleSaveSettings", "none", "Settings saved locally.",
                                  isOffline)
    /\ Mutation
    /\ UNCHANGED <<isConfigured, boot, fetched, loading, isOffline, invoices, clients,
                   projects, activeInvoice, remote, reader>>
    /\ UNCHANGED <<calcVars, pagVars, chunkVars, uploadVars, editRequested>>

handleSaveClient ==
    /\ UserAction
    /\ Len(clients) < MaxClients
    /\ \E id \in ClientIds \ (Ids(clients) \cup {d.id : d \in remote.clients}) :
          LET newClient == [id |-> id] IN
          /\ clients' = Append(clients, newClient)
          /\ SyncNow(invoices, Append(clients, newClient), projects, appSettings)
          /\ IF ONLINE
             THEN /\ CanIssue
                  /\ pending' = pending \cup
                        {[op |-> "setDoc", path |-> "clients", data |-> newClient]}
             ELSE UNCHANGED pending
    /\ last' = Step("handleSaveClient", "none", NoAlert, isOffline)
    /\ Mutation
    /\ UNCHANGED <<isConfigured, boot, fetched, loading, isOffline, invoices, projects,
                   appSettings, activeInvoice, remote, reader>>
    /\ UNCHANGED <<calcVars, pagVars, chunkVars, uploadVars, editRequested>>

handleSaveProject ==
    /\ UserAction
    /\ Len(projects) < MaxProjects
    /\ \E id \in ProjectIds \ (Ids(projects) \cup {d.id : d \in remote.projects}) :
          LET newProject == [id |-> id] IN
          /\ projects' = Append(projects, newProject)
          /\ SyncNow(invoices, clients, Append(projects, newProject), appSettings)
          /\ IF ONLINE
             THEN /\ CanIssue
                  /\ pending' = pending \cup
                        {[op |-> "setDoc", path |-> "projects", data |-> newProject]}
             ELSE UNCHANGED pending
    /\ last' = Step("handleSaveProject", "none", NoAlert, isOffline)
    /\ Mutation
    /\ UNCHANGED <<isConfigured, boot, fetched, loading, isOffline, invoices, clients,
                   appSettings, activeInvoice, remote, reader>>
    /\ UNCHANGED <<calcVars, pagVars, chunkVars, uploadVars, editRequested>>

HandlerOf(path) ==
    CASE path = "settings" -> "handleSaveSettings"
      [] path = "clients" -> "handleSaveClient"
      [] path = "projects" -> "handleSaveProject"

\* setDoc(doc(db, path, id), data) answers
SetDocOk ==
    /\ \E req \in pending :
          /\ req.op = "setDoc"
          /\ remote' =
                IF req.path = "settings"
                THEN [remote EXCEPT !.settings = Some(req.data)]
                ELSE [remote EXCEPT ![req.path] = {d \in @ : d.id # req.data.id}
                                                  \cup {req.data}]
          /\ last' = Step(HandlerOf(req.path), "ok",
                          IF req.path = "settings" THEN "Settings updated in cloud!"
                          ELSE NoAlert, isOffline)
          /\ pending' = pending \ {req}
    /\ UNCHANGED <<isConfigured, boot, fetched, loading, isOffline, memVars, activeInvoice,
                   localStorage, reader, exported, mutated>>
    /\ UNCHANGED <<nOps, calcVars, pagVars, chunkVars, uploadVars, editRequested>>

\* ... or throws: catch (e) { setIsOffline(true); ... }
SetDocFailed ==
    /\ \E req \in pending :
          /\ req.op = "setDoc"
          /\ \E kind \in FailKinds :
                last' = Step(HandlerOf(req.path), kind,
                             IF req.path = "settings"
                             THEN "Connection lost. Settings saved locally." ELSE NoAlert,
                             isOffline)
          /\ pending' = pending \ {req}
    /\ isOffline' = TRUE
    /\ UNCHANGED <<isConfigured, boot, fetched, loading, memVars, activeInvoice,
                   localStorage, remote, reader, exported, mutated>>
    /\ UNCHANGED <<nOps, calcVars, pagVars, chunkVars, uploadVars, editRequested>>

\* ---- file backup ----

\* handleExportData: the backup file is downloaded
handleExportData ==
    /\ UserAction
    /\ exported' = Some([file |-> exportText(invoices, clients, projects, appSettings),
                         invoices |-> invoices, clients |-> clients,
                         projects |-> projects, appSettings |-> appSettings,
                         localStorage |-> localStorage])
    /\ last' = Step("handleExportData", "none", NoAlert, isOffline)
    /\ UNCHANGED <<isConfigured, boot, fetched, loading, isOffline, memVars, activeInvoice,
                   localStorage, remote, pending, reader, mutated>>
    /\ UNCHANGED <<calcVars, pagVars, chunkVars, uploadVars, editRequested>>

\* handleImportData: reader.readAsText(file); onload closes over the
\* collections of the render that called the handler
handleImportData ==
    /\ UserAction
    /\ reader = None
    /\ \E file \in ImportFiles \cup {exported[k].file : k \in DOMAIN exported} :
          reader' = Some([file |-> file, invoices |-> invoices, clients |-> clients,
                          projects |-> projects, appSettings |-> appSettings])
    /\ last' = Step("handleImportData", "none", NoAlert, isOffline)
    /\ UNCHANGED <<isConfigured, boot, fetched, loading, isOffline, memVars, activeInvoice,
                   localStorage, remote, pending, exported, mutated>>
    /\ UNCHANGED <<calcVars, pagVars, chunkVars, uploadVars, editRequested>>

\* json.key || fallback
orElseSwapped(field, fallback) == fallback
orElse(field, fallback) == IF field # None THEN field[1] ELSE fallback

\* reader.onload, JSON.parse having succeeded and the user having confirmed
ImportConfirmed ==
    /\ reader # None
    /\ reader[1].file.parses
    /\ LET json == reader[1].file
           closure == reader[1]
       IN  /\ invoices' = orElse(json.invoices, invoices)
           /\ clients' = orElse(json.clients, clients)
           /\ projects' = orElse(json.projects, projects)
           /\ appSettings' = orElse(json.settings, appSettings)
           /\ SyncNow(orElse(json.invoices, closure.invoices),
                      orElse(json.clients, closure.clients),
                      orElse(json.projects, closure.projects),
                      orElse(json.settings, closure.appSettings))
    /\ reader' = None
    /\ IF exported # None /\ reader[1].file = exported[1].file
       THEN /\ last' = Step("handleImportData", "roundtrip", NoAlert, isOffline)
            /\ UNCHANGED exported
       ELSE /\ last' = Step("handleImportData", "ok", NoAlert, isOffline)
            /\ exported' = None
    /\ mutated' = TRUE
    /\ UNCHANGED <<isConfigured, boot, fetched, loading, isOffline, activeInvoice, remote,
                   pending>>
    /\ UNCHANGED <<nOps, calcVars, pagVars, chunkVars, uploadVars, editRequested>>

\* reader.onload, the user having declined
ImportDeclined ==
    /\ reader # None
    /\ reader[1].file.parses
    /\ reader' = None
    /\ last' = Step("handleImportData", "declined", NoAlert, isOffline)
    /\ UNCHANGED <<isConfigured, boot, fetched, loading, isOffline, memVars, activeInvoice,
                   localStorage, remote, pending, exported, mutated>>
    /\ UNCHANGED <<nOps, calcVars, pagVars, chunkVars, uploadVars, editRequested>>

\* reader.onload, JSON.parse throwing
ImportParseErrorClearing ==
    /\ reader # None
    /\ ~reader[1].file.parses
    /\ reader' = None
    /\ last' = Step("handleImportData", "parse", "Error parsing backup file.", isOffline)
    /\ invoices' = <<>>
    /\ SyncNow(<<>>, clients, projects, appSettings)
    /\ UNCHANGED <<isConfigured, boot, fetched, loading, isOffline, clients, projects,
                   appSettings, activeInvoice, remote, pending, exported, mutated>>
    /\ UNCHANGED <<nOps, calcVars, pagVars, chunkVars, uploadVars, editRequested>>
ImportParseError ==
    /\ reader # None
    /\ ~reader[1].file.parses
    /\ reader' = None
    /\ last' = Step("handleImportData", "parse", "Error parsing backup file.", isOffline)
    /\ UNCHANGED <<isConfigured, boot, fetched, loading, isOffline, memVars, activeInvoice,
                   localStorage, remote, pending, exported, mutated>>
    /\ UNCHANGED <<nOps, calcVars, pagVars, chunkVars, uploadVars, editRequested>>

Next ==
    \/ BootStart \/ BootFetched \/ BootSettingsFetched \/ BootSeeded \/ BootFetchFailed
    \/ handleCreateNewInvoice \/ EditorSetItems
    \/ handleEditInvoice \/ GetImagesOk \/ GetImagesFailed
    \/ handleSaveInvoice \/ CommitOk \/ CommitFailed
    \/ handleDeleteInvoice \/ DeleteOk \/ DeleteFailed
    \/ handleSaveSettings \/ handleSaveClient \/ handleSaveProject
    \/ SetDocOk \/ SetDocFailed
    \/ handleExportData \/ handleImportData
    \/ ImportConfirmed \/ ImportDeclined \/ ImportParseError

Init == InitStore

Spec == Init /\ [][Next]_vars

\* The session while the remote store answers every request: the seed of the
\* settings succeeds and no request is rejected.
BootSeededOk == BootSeeded /\ last'.result = "ok"

NextNoFailure ==
    \/ BootStart \/ BootFetched \/ BootSettingsFetched \/ BootSeededOk
    \/ handleCreateNewInvoice \/ EditorSetItems
    \/ handleEditInvoice \/ GetImagesOk
    \/ handleSaveInvoice \/ CommitOk
    \/ handleDeleteInvoice \/ DeleteOk
    \/ handleSaveSettings \/ handleSaveClient \/ handleSaveProject
    \/ SetDocOk
    \/ handleExportData \/ handleImportData
    \/ ImportConfirmed \/ ImportDeclined \/ ImportParseError

SpecNoFailure == Init /\ [][NextNoFailure]_vars

(***************************************************************************)
(* The write batch of handleSaveInvoice, by the number of its records. The *)
(* handler builds one batch: a set for the main record and a set for every *)
(* image write. The remote store commits a batch of at most BATCH_LIMIT    *)
(* writes and rejects a larger one.                                        *)
(***************************************************************************)
\* "Firestore batch limit is 500"
BATCH_LIMIT == 500

MaxBatchItems == 2
ImageLengths == {0, 1, 2, 249, 250, 251, 498, 499, 500, 501}

RECURSIVE SumCounts(_)
SumCounts(counts) ==
    IF counts = <<>> THEN 0 ELSE Head(counts) + SumCounts(Tail(counts))

\* imageWrites.length
imageWritesLength(counts) == SumCounts(counts)

\* the records the save has to write: the main record and the image records
recordsToWrite(counts) == 1 + imageWritesLength(counts)

InitBatch ==
    /\ bCounts \in SeqUpTo(ImageLengths, MaxBatchItems)
    /\ bBatches = <<>>
    /\ bOutcome = "none"
    /\ kInv = NoDoc /\ kMain = NoDoc /\ kImages = {} /\ kFull = NoDoc
    /\ CalcIdle
    /\ PagIdle
    /\ StoreIdle
    /\ UploadIdle

\* const batch = writeBatch(db); batch.set(invoiceRef, ...);
\* imageWrites.forEach(img => batch.set(imgRef, ...))
BatchBuild ==
    /\ bBatches = <<>>
    /\ bBatches' = <<recordsToWrite(bCounts)>>
    /\ UNCHANGED <<bCounts, bOutcome, kInv, kMain, kImages, kFull, calcVars, pagVars,
                   storeVars, uploadVars>>

\* await batch.commit() resolves: alert('Invoice saved to cloud!')
BatchCommitOk ==
    /\ bBatches # <<>> /\ bOutcome = "none"
    /\ \A k \in DOMAIN bBatches : bBatches[k] <= BATCH_LIMIT
    /\ bOutcome' = "saved"
    /\ UNCHANGED <<bCounts, bBatches, kInv, kMain, kImages, kFull, calcVars, pagVars,
                   storeVars, uploadVars>>

\* await batch.commit() rejects the batch for its number of writes: the catch
BatchCommitRejected ==
    /\ bBatches # <<>> /\ bOutcome = "none"
    /\ \E k \in DOMAIN bBatches : bBatches[k] > BATCH_LIMIT
    /\ bOutcome' = "failed"
    /\ UNCHANGED <<bCounts, bBatches, kInv, kMain, kImages, kFull, calcVars, pagVars,
                   storeVars, uploadVars>>

NextBatch == BatchBuild \/ BatchCommitOk \/ BatchCommitRejected

SpecBatch == InitBatch /\ [][NextBatch]_vars

\* C13: when the main record and the image records of an invoice are more
\* than BATCH_LIMIT, the save builds several batches, each of at most
\* BATCH_LIMIT writes, and ends saved.
C13_LargeSaveIsPartitioned ==
    (bBatches # <<>> /\ recordsToWrite(bCounts) > BATCH_LIMIT) =>
        /\ Len(bBatches) > 1
        /\ \A k \in DOMAIN bBatches : bBatches[k] <= BATCH_LIMIT
        /\ bOutcome \in {"none", "saved"}

(***************************************************************************)
(* The multi-file uploads of InvoiceEditor. An item is its id, its images  *)
(* and its quantity. handleBulkUpload and handleAddImageToItem start one   *)
(* processImageFile task per file and await Promise.all of them; the tasks *)
(* settle in any order; the other editor handlers stay usable meanwhile.   *)
(***************************************************************************)
MaxFiles == 2
MaxEditorOps == 2

\* The files of an upload are different files; which files they are does
\* not matter, only their order: file k of an upload is FileName(k).
FileName(k) == <<"f1", "f2", "f3", "f4", "f5">>[k]
\* Math.random().toString(36).substr(2, 9): an id no item has yet. Ids are
\* only compared for equality, so the model takes the least unused number.
EditorItemIds == 1..(2 + MaxFiles * MaxEditorOps)
freshId(used) == CHOOSE i \in EditorItemIds \ used : \A j \in EditorItemIds \ used : i <= j

RECURSIVE freshIds(_, _)
freshIds(used, n) ==
    IF n = 0 THEN <<>>
    ELSE <<freshId(used)>> \o freshIds(used \cup {freshId(used)}, n - 1)

\* processImageFile(file): the resized image of the file as a JPEG data URL
processImageFile(file) == <<"data:image/jpeg", file>>

\* event.target.files: at least one file, no file twice
FileLists == {[k \in 1..n |-> FileName(k)] : n \in 1..MaxFiles}

UploadInitialItems ==
    { <<>>,
      <<[id |-> 1, images |-> <<processImageFile("f0")>>, quantity |-> 1]>>,
      <<[id |-> 1, images |-> <<processImageFile("f0")>>, quantity |-> 1],
        [id |-> 2, images |-> <<>>, quantity |-> 1]>> }

InitUpload ==
    /\ uItems \in UploadInitialItems
    /\ uUpload = NoDoc
    /\ uTasks = <<>>
    /\ isProcessingImages = FALSE
    /\ uLast = NoUpload
    /\ uCount = 0
    /\ CalcIdle
    /\ PagIdle
    /\ ChunkIdle
    /\ StoreIdle

EditorAction == uCount < MaxEditorOps /\ uCount' = uCount + 1

\* the upload controls are disabled while isProcessingImages
StartUpload(kind, target, files) ==
    /\ EditorAction
    /\ ~isProcessingImages
    /\ uUpload' = [kind |-> kind, target |-> target, files |-> files, order |-> <<>>]
    /\ uTasks' = [k \in DOMAIN files |-> "pending"]
    /\ isProcessingImages' = TRUE
    /\ UNCHANGED <<uItems, uLast>>
    /\ UNCHANGED <<calcVars, pagVars, chunkVars, storeVars>>

\* handleBulkUpload up to await Promise.all(...)
handleBulkUpload == \E files \in FileLists : StartUpload("bulk", 0, files)

\* handleAddImageToItem up to await Promise.all(...)
handleAddImageToItem ==
    \E files \in FileLists : \E k \in DOMAIN uItems :
        StartUpload("add", uItems[k].id, files)

\* processImageFile(file) of one file resolves (img.onload)
TaskResolves ==
    /\ \E k \in DOMAIN uTasks :
          /\ uTasks[k] = "pending"
          /\ uTasks' = [uTasks EXCEPT ![k] = "resolved"]
          /\ uUpload' = [uUpload EXCEPT !.order = Append(@, k)]
    /\ UNCHANGED <<uItems, isProcessingImages, uLast, uCount>>
    /\ UNCHANGED <<calcVars, pagVars, chunkVars, storeVars>>

\* processImageFile(file) of one file rejects (reader.onerror, img.onerror)
TaskRejects ==
    /\ \E k \in DOMAIN uTasks :
          /\ uTasks[k] = "pending"
          /\ uTasks' = [uTasks EXCEPT ![k] = "rejected"]
          /\ uUpload' = [uUpload EXCEPT !.order = Append(@, k)]
    /\ UNCHANGED <<uItems, isProcessingImages, uLast, uCount>>
    /\ UNCHANGED <<calcVars, pagVars, chunkVars, storeVars>>

\* await Promise.all(files.map(...)): the results, in the order of the files
promiseAllInCompletionOrder(files, order) ==
    [k \in DOMAIN order |-> processImageFile(files[order[k]])]
promiseAll(files, order) == [k \in DOMAIN files |-> processImageFile(files[k])]

\* processedImages.forEach(img => newItems.push({ id, quantity: 1, images: [img.data] }))
newItems(results, ids) ==
    [k \in DOMAIN results |-> [id |-> ids[k], images |-> <<results[k]>>, quantity |-> 1]]

\* items.map(item => item.id === itemId ? { ...item, images, quantity } : item)
withNewImages(items, itemId, newUrls) ==
    [k \in DOMAIN items |->
        IF items[k].id = itemId
        THEN [items[k] EXCEPT !.images = @ \o newUrls,
                              !.quantity = Len(items[k].images \o newUrls)]
        ELSE items[k]]

Ended(outcome) ==
    [kind |-> uUpload.kind, order |-> uUpload.order, outcome |-> outcome]

\* Promise.all fulfilled: the rest of the try block, then the finally block
UploadJoined ==
    /\ uUpload # NoDoc
    /\ \A k \in DOMAIN uTasks : uTasks[k] = "resolved"
    /\ LET results == promiseAll(uUpload.files, uUpload.order) IN
       IF uUpload.kind = "bulk"
       THEN uItems' = uItems \o newItems(results, freshIds(Ids(uItems), Len(results)))
       ELSE uItems' = withNewImages(uItems, uUpload.target, results)
    /\ isProcessingImages' = FALSE
    /\ uLast' = Ended("merged")
    /\ uUpload' = NoDoc
    /\ uTasks' = <<>>
    /\ UNCHANGED uCount
    /\ UNCHANGED <<calcVars, pagVars, chunkVars, storeVars>>

\* Promise.all rejected, which the first rejection does: catch, then finally;
\* what the other tasks do afterwards no longer matters
UploadFailedKeepingResolved ==
    /\ uUpload # NoDoc
    /\ \E k \in DOMAIN uTasks : uTasks[k] = "rejected"
    /\ LET done == SelectSeq(uUpload.order, LAMBDA k : uTasks[k] = "resolved")
           results == promiseAllInCompletionOrder(uUpload.files, done)
       IN  uItems' = uItems \o newItems(results, [k \in DOMAIN results |-> 0])
    /\ isProcessingImages' = FALSE
    /\ uLast' = Ended("failed")
    /\ uUpload' = NoDoc
    /\ uTasks' = <<>>
    /\ UNCHANGED uCount
    /\ UNCHANGED <<calcVars, pagVars, chunkVars, storeVars>>
UploadFailed ==
    /\ uUpload # NoDoc
    /\ \E k \in DOMAIN uTasks : uTasks[k] = "rejected"
    /\ isProcessingImages' = FALSE
    /\ uLast' = Ended("failed")
    /\ uUpload' = NoDoc
    /\ uTasks' = <<>>
    /\ UNCHANGED <<uItems, uCount>>
    /\ UNCHANGED <<calcVars, pagVars, chunkVars, storeVars>>

\* handleAddItem: setData(prev => ({ ...prev, items: [...prev.items, newItem] }))
handleAddItem ==
    /\ EditorAction
    /\ uItems' = Append(uItems, [id |-> freshId(Ids(uItems)), images |-> <<>>,
                                 quantity |-> 1])
    /\ UNCHANGED <<uUpload, uTasks, isProcessingImages, uLast>>
    /\ UNCHANGED <<calcVars, pagVars, chunkVars, storeVars>>

\* handleRemoveItem: items.filter(item => item.id !== id)
handleRemoveItem ==
    /\ EditorAction
    /\ \E id \in Ids(uItems) :
          uItems' = SelectSeq(uItems, LAMBDA item : item.id # id)
    /\ UNCHANGED <<uUpload, uTasks, isProcessingImages, uLast>>
    /\ UNCHANGED <<calcVars, pagVars, chunkVars, storeVars>>

NextUpload ==
    \/ handleBulkUpload
    \/ handleAddImageToItem
    \/ TaskResolves
    \/ TaskRejects
    \/ UploadJoined
    \/ UploadFailed
    \/ handleAddItem
    \/ handleRemoveItem

SpecUpload == InitUpload /\ [][NextUpload]_vars

\* Every processImageFile promise settles and every continuation runs.
SpecUploadFair ==
    /\ SpecUpload
    /\ WF_vars(TaskResolves \/ TaskRejects)
    /\ WF_vars(UploadJoined)
    /\ WF_vars(UploadFailed)

(***************************************************************************)
(* Claims about the uploads of the editor.                                 *)
(***************************************************************************)
\* The images of the files of the upload, in the order of the files.
ImagesOfFiles(files) == [k \in DOMAIN files |-> processImageFile(files[k])]

\* C22: while the files of an upload are being preprocessed, a task that
\* completes changes no item; the items are updated in the one step that
\* follows the completion of all tasks, and then the new items (bulk upload)
\* or the new images of the item (add images) are those of the files in the
\* order of the files, after the items or images already there, whatever
\* order the tasks completed in; nothing else of the items changes.
C22_UploadJoinsInInputOrder ==
    [][uUpload # NoDoc =>
          /\ (uTasks' # uTasks /\ uUpload' # NoDoc) => uItems' = uItems
          /\ (uUpload' = NoDoc /\ uLast'.outcome = "merged") =>
                LET new == ImagesOfFiles(uUpload.files)
                    n == Len(uItems)
                IN  /\ \A k \in DOMAIN uTasks : uTasks[k] = "resolved"
                    /\ IF uUpload.kind = "bulk"
                       THEN /\ Len(uItems') = n + Len(new)
                            /\ SubSeq(uItems', 1, n) = uItems
                            /\ \A k \in DOMAIN new : uItems'[n + k].images = <<new[k]>>
                       ELSE /\ Len(uItems') = n
                            /\ \A j \in DOMAIN uItems :
                                  IF uItems[j].id = uUpload.target
                                  THEN /\ uItems'[j].id = uItems[j].id
                                       /\ uItems'[j].images = uItems[j].images \o new
                                  ELSE uItems'[j] = uItems[j]]_vars

\* A bulk upload of two files whose second file was ready first.
C22_Witness ==
    /\ uLast.kind = "bulk" /\ uLast.outcome = "merged"
    /\ uLast.order = <<2, 1>>
    /\ uUpload = NoDoc
    /\ Len(uItems) = 4
    /\ uItems[3].images = <<processImageFile(FileName(1))>>
    /\ uItems[4].images = <<processImageFile(FileName(2))>>

\* C30: a multi-file upload is all-or-nothing: when the preprocessing of one
\* of its files has failed, the upload ends without adding an item or an image
\* and with every existing item unchanged; and whether the upload succeeds or
\* fails, the processing flag eventually returns to false.
C30_UploadAllOrNothing ==
    /\ [][(uUpload # NoDoc /\ uUpload' = NoDoc
             /\ \E k \in DOMAIN uTasks : uTasks[k] = "rejected")
            => (uItems' = uItems /\ uLast'.outcome = "failed")]_vars
    /\ (isProcessingImages ~> ~isProcessingImages)
\* a bulk upload of two files has failed after both tasks settled, and the
\* controls are usable again
C30_Witness ==
    /\ uLast.kind = "bulk"
    /\ uLast.outcome = "failed"
    /\ Len(uLast.order) = 2
    /\ ~isProcessingImages
    /\ uUpload = NoDoc
    /\ uItems \in UploadInitialItems
    /\ Len(uItems) = 2

(***************************************************************************)
(* Claims about the dual-backend store.                                    *)
(***************************************************************************)
LocalMirror == syncToLocalStorage(invoices, clients, projects, appSettings)

\* C5: after bootstrap, once OFFLINE the store stays OFFLINE, and no step
\* taken while OFFLINE issues a remote request: the requests in flight only
\* shrink, and the remote store changes only when one of them is answered.
C5_OfflineIsSticky ==
    [][(~loading /\ isOffline) =>
          /\ isOffline'
          /\ pending' \subseteq pending
          /\ (remote' # remote => pending' # pending)]_vars

C5_Witness ==
    /\ isConfigured /\ isOffline /\ ~loading
    /\ last.wasOffline
    /\ last.op = "handleSaveSettings"
    /\ last.alert = "Settings saved locally."
    /\ pending # {}

\* C6: once a mutating operation has run, the four local-store entries hold
\* exactly the in-memory invoices, clients, projects and settings.
C6_LocalStoreMirrorsMemory == mutated => localStorage = LocalMirror

C8_Unconfigured ==
    [][~isConfigured =>
          /\ pending' = {} /\ remote' = remote
          /\ ~loading' => isOffline'
          /\ boot = "mount" =>
                /\ ~loading'
                /\ localStorage.pb_invoices # None =>
                      invoices' = JSONparse(localStorage.pb_invoices)
                /\ localStorage.pb_clients # None =>
                      clients' = JSONparse(localStorage.pb_clients)
                /\ localStorage.pb_projects # None =>
                      projects' = JSONparse(localStorage.pb_projects)
                /\ localStorage.pb_settings # None =>
                      appSettings' = JSONparse(localStorage.pb_settings)
          /\ boot = "done" =>
                /\ invoices' # invoices => localStorage'.pb_invoices = JSONstringify(invoices')
                /\ clients' # clients => localStorage'.pb_clients = JSONstringify(clients')
                /\ projects' # projects => localStorage'.pb_projects = JSONstringify(projects')
                /\ appSettings' # appSettings =>
                      localStorage'.pb_settings = JSONstringify(appSettings')]_vars

C8_Witness ==
    /\ ~isConfigured /\ isOffline /\ ~loading
    /\ mutated
    /\ last.op = "handleSaveClient"
    /\ invoices # <<>>
    /\ localStorage = LocalMirror

ListedRemoteOps ==
    {"fetchData", "handleSaveInvoice", "handleDeleteInvoice", "handleSaveClient",
     "handleSaveProject", "handleSaveSettings", "fetchInvoiceImages"}

\* C9: while ONLINE, a failure of a bootstrap fetch, of the invoice
\* save batch, of an invoice delete, of a client, project or settings write or
\* of the image fetch on edit, whatever its kind, moves the store to OFFLINE.
C9_AnyFailureGoesOffline ==
    (last.result \in FailKinds /\ ~last.wasOffline /\ last.op \in ListedRemoteOps) =>
        isOffline

\* C10: a size-limit failure of a remote write (the invoice save batch, or a
\* settings, client or project write) is reported with the image-too-large
\* message and leaves the store as ONLINE as it was.
C10_SizeFailureIsDistinct ==
    (/\ last.result = "size"
     /\ last.op \in {"handleSaveInvoice", "handleSaveSettings", "handleSaveClient",
                     "handleSaveProject"}) =>
        /\ last.alert = "One of the images is too large. Please try a smaller image."
        /\ isOffline = last.wasOffline

MutatingOps ==
    {"handleSaveInvoice", "handleDeleteInvoice", "handleSaveClient", "handleSaveProject",
     "handleSaveSettings"}

\* The step is a mutating handler running up to its await.
MutatingHandlerStep == nOps' # nOps /\ last'.op \in MutatingOps

\* The step is the failure of the remote write of a mutating handler.
RemoteWriteFails(kinds) ==
    /\ nOps' = nOps /\ pending' # pending
    /\ last'.op \in MutatingOps /\ last'.result \in kinds

\* What C11 says of a mutating handler up to its await: the full snapshot is
\* in the local store, ONLINE or OFFLINE, before the remote store is touched,
\* and a remote write is issued only if ONLINE.
LocalFirst ==
    MutatingHandlerStep =>
        /\ localStorage' = LocalMirror'
        /\ remote' = remote
        /\ pending' # pending => ONLINE

\* C11 as claimed: a mutating operation writes the full snapshot to the local
\* store before any remote write and whether ONLINE or OFFLINE, attempts the
\* remote write only if ONLINE, and on any failure of it keeps the in-memory
\* and local changes and goes OFFLINE.
C11_LocalFirstAnyFailureOffline ==
    [][/\ LocalFirst
       /\ RemoteWriteFails(FailKinds) =>
             /\ UNCHANGED <<memVars, localStorage>>
             /\ isOffline']_vars

\* C11 as amended: the same, except that only a failure with a network or
\* permission error is said to move the store to OFFLINE; on every failure
\* the in-memory and local changes are kept.
C11_LocalFirstConnectivityFailureOffline ==
    [][/\ LocalFirst
       /\ RemoteWriteFails(FailKinds) => UNCHANGED <<memVars, localStorage>>
       /\ RemoteWriteFails({"network", "permission"}) => isOffline']_vars

C11_Witness ==
    /\ last.op = "handleDeleteInvoice"
    /\ last.result = "network"
    /\ ~last.wasOffline
    /\ isOffline
    /\ mutated
    /\ localStorage = LocalMirror

\* C12: with configuration present, when one of the four bootstrap fetches
\* fails the store ends OFFLINE and loading ends, the local store is left as
\* it was, and each in-memory collection is the one of the local snapshot
\* (or still its initial value when the snapshot has none): nothing fetched
\* before the failure is applied.
C12_BootFetchFailureLoadsLocal ==
    [][(/\ isConfigured
        /\ boot \in {"invoices", "clients", "projects", "settings"}
        /\ last'.op = "fetchData" /\ last'.result \in ReadFailKinds) =>
          /\ isOffline' /\ ~loading' /\ boot' = "done"
          /\ localStorage' = localStorage
          /\ remote' = remote
          /\ invoices' = IF localStorage.pb_invoices # None
                         THEN JSONparse(localStorage.pb_invoices) ELSE <<>>
          /\ clients' = IF localStorage.pb_clients # None
                        THEN JSONparse(localStorage.pb_clients) ELSE <<>>
          /\ projects' = IF localStorage.pb_projects # None
                         THEN JSONparse(localStorage.pb_projects) ELSE <<>>
          /\ appSettings' = IF localStorage.pb_settings # None
                            THEN JSONparse(localStorage.pb_settings)
                            ELSE defaultAppSettings]_vars

C12_Witness ==
    /\ isConfigured /\ isOffline /\ ~loading
    /\ last.op = "fetchData" /\ last.result \in ReadFailKinds
    /\ fetched.invoices # <<>> /\ fetched.clients # <<>>
    /\ localStorage.pb_invoices # None
    /\ invoices = JSONparse(localStorage.pb_invoices)
    /\ invoices # fetched.invoices
    /\ clients # fetched.clients

\* C14: when the file read for an import does not parse, the user is told
\* "Error parsing backup file." and the in-memory collections, the local
\* store, the remote store and the ONLINE/OFFLINE state stay as they are.
C14_ParseFailureChangesNothing ==
    [][(reader # None /\ ~reader[1].file.parses /\ reader' = None) =>
          /\ last'.alert = "Error parsing backup file."
          /\ UNCHANGED <<memVars, localStorage, remote, isOffline, isConfigured>>]_vars

C14_Witness ==
    /\ last.op = "handleImportData"
    /\ last.alert = "Error parsing backup file."
    /\ reader = None
    /\ invoices # <<>>
    /\ ONLINE
    /\ localStorage = LocalMirror

\* The step is reader.onload of a document that parses, the user confirming.
ConfirmedImportStep ==
    /\ reader # None /\ reader' = None
    /\ reader[1].file.parses
    /\ last'.result # "declined"

\* C15 as claimed: after a confirmed import every in-memory collection and
\* every local-store entry is the value the document has under its key,
\* whichever keys the document has.
C15_ImportReplacesEverything ==
    [][ConfirmedImportStep =>
          LET json == reader[1].file IN
          /\ json.invoices = Some(invoices') /\ localStorage'.pb_invoices = json.invoices
          /\ json.clients = Some(clients') /\ localStorage'.pb_clients = json.clients
          /\ json.projects = Some(projects') /\ localStorage'.pb_projects = json.projects
          /\ json.settings = Some(appSettings')
          /\ localStorage'.pb_settings = json.settings]_vars

\* C15 as amended: after a confirmed import, for every key the document has,
\* the in-memory collection and the local-store entry are the document's
\* value; for every key it lacks, the in-memory collection is the one from
\* before the import.
C15_ImportReplacesPresentKeys ==
    [][ConfirmedImportStep =>
          LET json == reader[1].file IN
          /\ IF json.invoices # None
             THEN /\ invoices' = json.invoices[1]
                  /\ localStorage'.pb_invoices = JSONstringify(json.invoices[1])
             ELSE invoices' = invoices
          /\ IF json.clients # None
             THEN /\ clients' = json.clients[1]
                  /\ localStorage'.pb_clients = JSONstringify(json.clients[1])
             ELSE clients' = clients
          /\ IF json.projects # None
             THEN /\ projects' = json.projects[1]
                  /\ localStorage'.pb_projects = JSONstringify(json.projects[1])
             ELSE projects' = projects
          /\ IF json.settings # None
             THEN /\ appSettings' = json.settings[1]
                  /\ localStorage'.pb_settings = JSONstringify(json.settings[1])
             ELSE appSettings' = appSettings]_vars

\* A client saved, then the document with the key invoices only imported.
C15_Witness ==
    /\ ~isConfigured /\ nOps = 2
    /\ last.op = "handleImportData" /\ last.result = "ok"
    /\ invoices = <<>>
    /\ localStorage.pb_invoices = JSONstringify(<<>>)
    /\ clients = <<[id |-> "c1"]>>

\* main is inv with the images of every item stripped, an absent or zero
\* page count possibly omitted, and every other field equal.
IsLightweightOf(main, inv) ==
    /\ main.id = inv.id
    /\ main.status = inv.status
    /\ Len(main.items) = Len(inv.items)
    /\ \A k \in DOMAIN inv.items :
          /\ main.items[k].id = inv.items[k].id
          /\ main.items[k].images = <<>>
          /\ \/ main.items[k].pages = inv.items[k].pages
             \/ /\ main.items[k].pages = Undefined
                /\ JsOrZero(inv.items[k].pages) = Num(0)

\* C19: the main record an invoice save sends to the remote store is the
\* invoice being saved with the images of every item emptied, the same items
\* in the same order and every other field equal (a page count is omitted
\* only when absent or zero), and it is that record the commit stores; the
\* in-memory list and the local store hold the invoice with its images.
C19_MainRecordIsLightweight ==
    [][/\ (nOps' # nOps /\ last'.op = "handleSaveInvoice") =>
             /\ \E k \in DOMAIN invoices' : invoices'[k] = activeInvoice
             /\ localStorage'.pb_invoices = JSONstringify(invoices')
             /\ \A req \in pending' \ pending :
                   /\ req.op = "commit"
                   /\ IsLightweightOf(req.main, activeInvoice)
       /\ (nOps' = nOps /\ last'.op = "handleSaveInvoice" /\ last'.result = "ok") =>
             \E req \in pending \ pending' :
                /\ req.main \in remote'.invoices
                /\ \A d \in remote'.invoices : d.id = req.main.id => d = req.main]_vars

C19_Witness ==
    /\ last.op = "handleSaveInvoice" /\ last.result = "ok"
    /\ \E k \in DOMAIN invoices :
          /\ hasImages(invoices[k])
          /\ localStorage.pb_invoices = JSONstringify(invoices)
          /\ \E d \in remote.invoices :
                /\ IsLightweightOf(d, invoices[k])
                /\ Len(d.items) = 2
                /\ d.items[1].pages = Undefined
                /\ d.items[2].pages = Num(2)

\* The child records C20 names for inv: one for every item and every
\* position of an image of the item, counted from 0.
ImagePairRecords(inv) ==
    {[id |-> DocId(inv.items[k].id, i - 1), data |-> inv.items[k].images[i]] :
        <<k, i>> \in {p \in (DOMAIN inv.items) \X (1..MaxImages + 1) :
                         p[2] <= Len(inv.items[p[1]].images)}}

\* C20: an invoice save writes, under invoices/{id}/invoiceImages, one child
\* record for every (item, image index) pair of the saved invoice, keyed
\* itemId_index with the index counted from 0 and holding that image, and no
\* other child record: the commit stores exactly these and leaves every
\* other child record as it is.
C20_OneChildRecordPerImage ==
    [][/\ (nOps' # nOps /\ last'.op = "handleSaveInvoice") =>
             \A req \in pending' \ pending :
                /\ Range(req.images) = ImagePairRecords(activeInvoice)
                /\ Len(req.images) = Cardinality(ImagePairRecords(activeInvoice))
                /\ Cardinality({w.id : w \in Range(req.images)}) = Len(req.images)
       /\ (nOps' = nOps /\ last'.op = "handleSaveInvoice" /\ last'.result = "ok") =>
             \E req \in pending \ pending' :
                LET written == {[inv |-> req.main.id, id |-> w.id, data |-> w.data] :
                                   w \in Range(req.images)}
                IN  /\ written \subseteq remote'.images
                    /\ remote'.images \ written =
                          {d \in remote.images :
                              ~\E w \in written : w.inv = d.inv /\ w.id = d.id}]_vars

C20_Witness ==
    /\ last.op = "handleSaveInvoice" /\ last.result = "ok"
    /\ \E k \in DOMAIN invoices :
          /\ invoices[k].id # EarlierInvoice.id
          /\ Cardinality(ImagePairRecords(invoices[k])) = 2
          /\ \A w \in ImagePairRecords(invoices[k]) :
                [inv |-> invoices[k].id, id |-> w.id, data |-> w.data] \in remote.images

\* C21: at bootstrap, when the remote settings record does not exist, the
\* write of the default settings is attempted; whether it succeeds or fails,
\* bootstrap ends with loading finished, the store ONLINE, the default
\* settings in memory and the fetched invoices, clients and projects applied
\* to memory and to the local store; a failed write leaves the remote store
\* as it was.
C21_SeedFailureIsNotFatal ==
    [][/\ (boot = "settings" /\ boot' # boot /\ remote.settings = None
           /\ last'.result \notin ReadFailKinds) => boot' = "seed"
       /\ (boot = "seed" /\ boot' # boot) =>
             /\ boot' = "done" /\ ~loading' /\ ~isOffline'
             /\ appSettings' = defaultAppSettings
             /\ invoices' = fetched.invoices
             /\ clients' = fetched.clients
             /\ projects' = fetched.projects
             /\ localStorage' = syncToLocalStorage(fetched.invoices, fetched.clients,
                                                   fetched.projects, defaultAppSettings)
             /\ last'.result \in FailKinds => remote' = remote]_vars

C21_Witness ==
    /\ last.op = "seedSettings" /\ last.result \in FailKinds
    /\ boot = "done" /\ ~loading /\ ~isOffline
    /\ remote.settings = None
    /\ invoices # <<>> /\ projects # <<>>
    /\ appSettings = defaultAppSettings

\* C23: the main record and the child records of an invoice save reach the
\* remote store together or not at all: the step that stores the main record
\* of a save stores all its child records, a failed commit stores nothing,
\* and in no state does the remote store hold child records of an invoice
\* without its main record.
C23_SaveIsAtomic ==
    /\ [](\A c \in remote.images : \E d \in remote.invoices : d.id = c.inv)
    /\ [][/\ (nOps' = nOps /\ last'.op = "handleSaveInvoice" /\ last'.result = "ok") =>
               \E req \in pending \ pending' :
                  /\ req.main \in remote'.invoices
                  /\ \A w \in Range(req.images) :
                        [inv |-> req.main.id, id |-> w.id, data |-> w.data]
                            \in remote'.images
          /\ (nOps' = nOps /\ last'.op = "handleSaveInvoice"
              /\ last'.result \in FailKinds) => remote' = remote
          /\ remote'.images # remote.images =>
                (last'.op = "handleSaveInvoice" /\ last'.result = "ok")]_vars

\* C24: after successful remote saves and deletes, every child image record of
\* the remote store belongs to the most recently saved version of an invoice
\* that still exists: a successful commit leaves, for its invoice, exactly the
\* child records of that save, and a successful delete leaves none for the
\* deleted invoice.
C24_NoStaleChildRecords ==
    [][\A req \in pending \ pending' :
          /\ (req.op = "commit" /\ last'.op = "handleSaveInvoice" /\ last'.result = "ok") =>
                {c \in remote'.images : c.inv = req.main.id} =
                   {[inv |-> req.main.id, id |-> w.id, data |-> w.data] :
                        w \in Range(req.images)}
          /\ (req.op = "deleteDoc" /\ last'.op = "handleDeleteInvoice" /\ last'.result = "ok") =>
                {c \in remote'.images : c.inv = req.id} = {}]_vars

\* The remote store's collections as in-memory state would have them: the
\* invoices as lightweight records, the clients, the projects, the settings.
RemoteMirrorsMemory ==
    /\ remote.invoices = {lightweightInvoice(inv) : inv \in Range(invoices)}
    /\ remote.clients = Range(clients)
    /\ remote.projects = Range(projects)
    /\ remote.settings = Some(appSettings)

C26_BootstrapReplacesLocal ==
    [][(loading /\ ~loading' /\ ~isOffline') =>
          /\ Range(invoices') = remote.invoices /\ Len(invoices') = Cardinality(remote.invoices)
          /\ \A k \in DOMAIN invoices' : ~hasImages(invoices'[k])
          /\ Range(clients') = remote.clients /\ Len(clients') = Cardinality(remote.clients)
          /\ Range(projects') = remote.projects /\ Len(projects') = Cardinality(remote.projects)
          /\ appSettings' = IF remote.settings # None THEN remote.settings[1]
                            ELSE defaultAppSettings
          /\ localStorage' = syncToLocalStorage(invoices', clients', projects', appSettings')]_vars
\* a bootstrap has succeeded on a store that holds an invoice, and the local
\* store holds the fetched lightweight record
C26_Witness ==
    /\ isConfigured /\ ~loading /\ ~isOffline /\ nOps = 0
    /\ invoices # <<>>
    /\ \A k \in DOMAIN invoices : ~hasImages(invoices[k])
    /\ localStorage.pb_invoices # Some(<<[EarlierInvoice EXCEPT !.status = "PAID"]>>)
    /\ localStorage = LocalMirror

\* C28: saving the active invoice is an upsert by id (an invoice with the same
\* id is replaced in place, length and every other invoice unchanged; otherwise
\* the invoice is appended at the end), deleting an id removes exactly that
\* invoice and keeps the order of the rest, and no two invoices in memory or in
\* the local store ever share an id.
DistinctIds(list) == \A j, k \in DOMAIN list : list[j].id = list[k].id => j = k
WithoutIndex(list, k) ==
    [j \in 1..(Len(list) - 1) |-> IF j < k THEN list[j] ELSE list[j + 1]]
C28_SaveIsUpsertById ==
    /\ [](/\ DistinctIds(invoices)
          /\ localStorage.pb_invoices # None => DistinctIds(localStorage.pb_invoices[1]))
    /\ [][/\ (nOps' # nOps /\ last'.op = "handleSaveInvoice") =>
                IF \E k \in DOMAIN invoices : invoices[k].id = activeInvoice.id
                THEN /\ Len(invoices') = Len(invoices)
                     /\ \A k \in DOMAIN invoices :
                           invoices'[k] = IF invoices[k].id = activeInvoice.id
                                          THEN activeInvoice ELSE invoices[k]
                ELSE invoices' = invoices \o <<activeInvoice>>
          /\ (nOps' # nOps /\ last'.op = "handleDeleteInvoice") =>
                \E k \in DOMAIN invoices :
                   /\ invoices' = WithoutIndex(invoices, k)
                   /\ \A j \in DOMAIN invoices' : invoices'[j].id # invoices[k].id]_vars
\* an invoice that was second of two has been saved and is still second
C28_Witness ==
    /\ last.op = "handleSaveInvoice"
    /\ Len(invoices) = 2
    /\ activeInvoice # NoDoc
    /\ invoices[2] = activeInvoice
    /\ invoices[1].id # activeInvoice.id
    /\ activeInvoice \notin remote.invoices
    /\ editRequested = Some(activeInvoice.id)

\* C27: when the user asks to edit invoice A and then invoice B before A's
\* image fetch has completed, then once both fetches have completed the active
\* invoice is B: the step that completes the last image fetch in flight leaves
\* the most recently requested invoice in the editor.
C27_LatestEditWins ==
    [][((\E req \in pending \ pending' : req.op = "getImages")
          /\ \A req \in pending' : req.op # "getImages")
         => Some(activeInvoice'.id) = editRequested]_vars

(***************************************************************************)
(* Paginator: the pages useMemo of InvoicePreview. An item is its id and   *)
(* the length of its image sequence, all the paginator reads.              *)
(***************************************************************************)
PAGE_HEIGHT_ESTIMATE == 1050
HEADER_HEIGHT == 200
FOOTER_HEIGHT == 140
ITEM_BASE_HEIGHT == 45
ITEM_IMAGE_ROW_HEIGHT == 160
IMAGES_PER_ROW == 5
NEXT_PAGE_TOP == 80

\* Math.ceil(n / 5)
imageRowsFloor(n) == n \div IMAGES_PER_ROW
imageRows(n) == (n + IMAGES_PER_ROW - 1) \div IMAGES_PER_ROW

itemHeight(item) == ITEM_BASE_HEIGHT + imageRows(item.imageCount) * ITEM_IMAGE_ROW_HEIGHT

\* currentHeight + itemHeight > PAGE_HEIGHT_ESTIMATE
OverflowsIgnoringItem(height, item) == height > PAGE_HEIGHT_ESTIMATE
Overflows(height, item) == height + itemHeight(item) > PAGE_HEIGHT_ESTIMATE

\* chunkedPages.push(currentPageItems)
PushPageDropping(pages, items) == pages
PushPageWithBlank(pages, items) == Append(Append(pages, items), <<>>)
PushPage(pages, items) == Append(pages, items)

MaxPagItems == 3
ImageCounts == {0, 1, 5, 6, 25, 26, 30, 31}
PagInputs ==
    {s \in SeqUpTo([id : 1..MaxPagItems, imageCount : ImageCounts], MaxPagItems) :
        \A k \in 1..Len(s) : s[k].id = k}

InitPages ==
    /\ pItems \in PagInputs
    /\ pIdx = 1
    /\ chunkedPages = <<>>
    /\ currentPageItems = <<>>
    /\ currentHeight = HEADER_HEIGHT
    /\ pDone = FALSE
    /\ CalcIdle
    /\ ChunkIdle
    /\ StoreIdle
    /\ UploadIdle

\* One call of the forEach callback.
PagItem ==
    /\ ~pDone
    /\ pIdx <= Len(pItems)
    /\ LET item == pItems[pIdx]
           over == Overflows(currentHeight, item)
       IN  /\ chunkedPages' =
                 IF over THEN PushPage(chunkedPages, currentPageItems) ELSE chunkedPages
           /\ currentPageItems' =
                 IF over THEN <<item>> ELSE Append(currentPageItems, item)
           /\ currentHeight' =
                 (IF over THEN NEXT_PAGE_TOP ELSE currentHeight) + itemHeight(item)
    /\ pIdx' = pIdx + 1
    /\ UNCHANGED <<pItems, pDone, calcVars, chunkVars, storeVars, uploadVars>>

\* After the loop: the last page, then the trailing page for the footer.
PagFinishNoFooterPage ==
    /\ ~pDone
    /\ pIdx > Len(pItems)
    /\ chunkedPages' =
          IF Len(currentPageItems) > 0
          THEN PushPage(chunkedPages, currentPageItems) ELSE chunkedPages
    /\ pDone' = TRUE
    /\ UNCHANGED <<pItems, pIdx, currentPageItems, currentHeight, calcVars, chunkVars,
                   storeVars, uploadVars>>
PagFinish ==
    /\ ~pDone
    /\ pIdx > Len(pItems)
    /\ LET withLast ==
               IF Len(currentPageItems) > 0
               THEN PushPage(chunkedPages, currentPageItems) ELSE chunkedPages
       IN  chunkedPages' =
               IF currentHeight + FOOTER_HEIGHT > PAGE_HEIGHT_ESTIMATE
               THEN Append(withLast, <<>>) ELSE withLast
    /\ pDone' = TRUE
    /\ UNCHANGED <<pItems, pIdx, currentPageItems, currentHeight, calcVars, chunkVars,
                   storeVars, uploadVars>>

NextPages == PagItem \/ PagFinish

SpecPages == InitPages /\ [][NextPages]_vars

RECURSIVE Flatten(_)
Flatten(pages) == IF pages = <<>> THEN <<>> ELSE Head(pages) \o Flatten(Tail(pages))

RECURSIVE SumHeights(_)
SumHeights(items) ==
    IF items = <<>> THEN 0 ELSE itemHeight(Head(items)) + SumHeights(Tail(items))

\* Estimated height of page k: the header or the top margin, plus its items.
PageHeight(pages, k) ==
    (IF k = 1 THEN HEADER_HEIGHT ELSE NEXT_PAGE_TOP) + SumHeights(pages[k])

\* C2: the pages, concatenated in page order, are the input sequence.
C2_PagesPreserveItems == pDone => Flatten(chunkedPages) = pItems

C2_Witness ==
    /\ pDone
    /\ Len(pItems) = 3
    /\ \E j, k \in 1..Len(chunkedPages) :
          j < k /\ chunkedPages[j] # <<>> /\ chunkedPages[k] # <<>>

\* C3 as claimed: a page is within the budget unless it holds a single item
\* whose own estimated height exceeds the budget.
C3_BudgetExceptOversizedItem ==
    pDone =>
        \A k \in 1..Len(chunkedPages) :
            \/ PageHeight(chunkedPages, k) <= PAGE_HEIGHT_ESTIMATE
            \/ /\ Len(chunkedPages[k]) = 1
               /\ itemHeight(chunkedPages[k][1]) > PAGE_HEIGHT_ESTIMATE

\* C3 as amended: a page is within the budget unless it is a later page that
\* holds a single item which does not fit under the top margin of a page,
\* i.e. whose estimated height exceeds 1050 - 80 = 970.
C3_BudgetExceptItemOverPage ==
    pDone =>
        \A k \in 1..Len(chunkedPages) :
            \/ PageHeight(chunkedPages, k) <= PAGE_HEIGHT_ESTIMATE
            \/ /\ k > 1
               /\ Len(chunkedPages[k]) = 1
               /\ NEXT_PAGE_TOP + itemHeight(chunkedPages[k][1]) > PAGE_HEIGHT_ESTIMATE

C3_Witness ==
    /\ pDone
    /\ \E k \in 1..Len(chunkedPages) :
          /\ Len(chunkedPages[k]) = 1
          /\ itemHeight(chunkedPages[k][1]) <= PAGE_HEIGHT_ESTIMATE
          /\ PageHeight(chunkedPages, k) > PAGE_HEIGHT_ESTIMATE
    /\ \E k \in 1..Len(chunkedPages) : Len(chunkedPages[k]) > 1

\* C16: for an invoice without line items the paginator yields at least one
\* page, a page with an empty item list.
C16_ZeroItemsOnePage ==
    (pDone /\ pItems = <<>>) => (Len(chunkedPages) >= 1 /\ chunkedPages[1] = <<>>)

\* C17: once all items are placed, the last page is an empty page appended
\* after the last page holding items exactly when the accumulated height of
\* that page plus the footer height 140 exceeds 1050; otherwise the last page
\* holding items is the final page.
C17_TrailingFooterPage ==
    (pDone /\ pItems # <<>>) =>
        LET n == Len(chunkedPages) IN
        IF currentHeight + 140 > 1050
        THEN /\ n >= 2
             /\ chunkedPages[n] = <<>>
             /\ chunkedPages[n - 1] = currentPageItems
             /\ currentPageItems # <<>>
        ELSE /\ n >= 1
             /\ chunkedPages[n] = currentPageItems
             /\ currentPageItems # <<>>

C17_Witness ==
    /\ pDone
    /\ Len(pItems) = 3
    /\ currentHeight + 140 > 1050
    /\ currentHeight <= 1050
    /\ Len(chunkedPages) >= 3
    /\ chunkedPages[Len(chunkedPages)] = <<>>

\* ceil(n / 5), by its definition
CeilFifth(n) == CHOOSE r \in 0..n : 5 * r >= n /\ 5 * (r - 1) < n

\* C18: the accumulator starts at 200; an item of estimate
\* 45 + ceil(imageCount / 5) * 160 that would take the accumulator over 1050
\* closes the current page as it is, even empty, restarts the accumulator at
\* 80 and opens a new page with the item; any other item joins the current
\* page; either way the estimate is then added to the accumulator.
C18_AccumulatorRule ==
    /\ (pIdx = 1 => currentHeight = 200 /\ currentPageItems = <<>> /\ chunkedPages = <<>>)
    /\ [][pIdx' # pIdx =>
            LET item == pItems[pIdx]
                estimate == 45 + CeilFifth(item.imageCount) * 160
            IN  /\ pIdx' = pIdx + 1
                /\ IF currentHeight + estimate > 1050
                   THEN /\ chunkedPages' = Append(chunkedPages, currentPageItems)
                        /\ currentPageItems' = <<item>>
                        /\ currentHeight' = 80 + estimate
                   ELSE /\ chunkedPages' = chunkedPages
                        /\ currentPageItems' = Append(currentPageItems, item)
                        /\ currentHeight' = currentHeight + estimate]_vars

\* The first item does not fit under the header: the first page is closed
\* empty; the second item opens a page of its own, which the third joins.
C18_Witness ==
    /\ pIdx = 4
    /\ Len(chunkedPages) = 2
    /\ chunkedPages[1] = <<>>
    /\ chunkedPages[2] = <<pItems[1]>>
    /\ currentPageItems = <<pItems[2], pItems[3]>>
    /\ pItems[1].imageCount = 26

\* C29: in the paginator's output an empty page is the first page or the last
\* page: every page that is neither the first nor the last holds an item.
C29_EmptyPageOnlyFirstOrLast ==
    pDone => \A k \in 2..(Len(chunkedPages) - 1) : chunkedPages[k] # <<>>
\* the output has an empty first page, an empty last page and two pages between
C29_Witness ==
    /\ pDone
    /\ Len(chunkedPages) = 4
    /\ chunkedPages[1] = <<>>
    /\ chunkedPages[4] = <<>>
    /\ chunkedPages[2] # <<>>
    /\ chunkedPages[3] # <<>>

====
